---- MODULE Spec2Model ----
(***************************************************************************)
(* A model of the chirpy backend: the auth package (password hashing with  *)
(* bcrypt, HS256 tokens) and the HTTP handlers that use it.                *)
(*                                                                         *)
(* Text is modelled as a sequence of byte values (a Go string is a byte    *)
(* sequence): <<97>> is "a", <<97, 0>> is "a\x00".                         *)
(***************************************************************************)
EXTENDS Integers, Sequences, FiniteSets, TLC

VARIABLES
    usedSalts,   \* salts crypto/rand has handed out so far
    hashLog,     \* the HashPassword calls made: <<[password, hash, err]>>
    lastCheck,   \* the last CheckPasswordHash call: [called, password, hash, err]
    now,         \* the wall clock, in ticks (TicksPerSecond ticks to the second)
    token,       \* the last MakeJWT call: its arguments, clock readings and result
    lastValidate,\* the last ValidateJWT call on token: [called, secret, at, res]
    expiredSeen, \* the secrets under which token has failed as expired
    users,       \* the rows of table users
    chirps,      \* the rows of table chirps
    req,         \* the last HTTP request
    resp,        \* the response to it, with the steps its handler took
    bearer,      \* the last GetBearerToken call: its header and its result
    presented,   \* the last ValidateJWT call on a token made outside MakeJWT
    calls,       \* the concurrent invocations of the auth functions
    frames,      \* the local variables of those invocations
    signingSecret, \* the signing secret the callers hold
    fileserverHits, \* apiConfig.fileserverHits, an atomic.Int32
    hits,        \* the increments executed: before the last long run, and since
    visits       \* the requests to /app/, /admin/metrics and /admin/reset

hashVars == <<usedSalts, hashLog, lastCheck>>

jwtVars == <<now, token, lastValidate, expiredSeen>>

httpVars == <<users, chirps, req, resp>>

bearerVars == <<bearer>>

presentVars == <<presented>>

concVars == <<calls, frames, signingSecret>>

hitVars == <<fileserverHits, hits, visits>>

vars == <<usedSalts, hashLog, lastCheck, now, token, lastValidate, expiredSeen,
          users, chirps, req, resp, bearer, presented,
          calls, frames, signingSecret, fileserverHits, hits, visits>>

----------------------------------------------------------------------------
(* Bounds of the model. *)

\* Number of distinct salts the random source can hand out.
MaxSalts == 2

\* Number of HashPassword calls kept in hashLog.
MaxHashCalls == 2

\* Resolution of the clock: ticks to the second.
TicksPerSecond == 2

\* The last tick the clock reaches.
MaxTime == 6

\* Number of rows table chirps holds.
MaxChirps == 1

\* Number of invocations of the auth functions running concurrently.
MaxCalls == 2

\* The last tick the clock reaches while they run.
MaxConcTime == 1

\* Number of requests to the hit counter's routes in flight or answered.
MaxVisits == 3

----------------------------------------------------------------------------
(* Text helpers. *)

\* The byte b repeated n times.
Rep(b, n) == [i \in 1..n |-> b]

\* The Go error value nil.
Nil == "nil"

\* fmt.Errorf(msg + ": %w", cause); cause is Nil for an error that wraps nothing.
Errorf(msg, cause) == [msg |-> msg, cause |-> cause]

NoError == Errorf(Nil, Nil)

----------------------------------------------------------------------------
(* golang.org/x/crypto/bcrypt, as HashPassword and CheckPasswordHash use it. *)

\* bcrypt.DefaultCost
DefaultCost == 10

\* GenerateFromPassword rejects passwords longer than this (ErrPasswordTooLong).
BcryptMaxLen == 72

\* Bytes of key material the Blowfish key schedule reads (18 words of 4 bytes).
BlowfishKeyBytes == 72

\* The key material bcrypt derives from a password: the password with a
\* trailing NUL, read cyclically by the Blowfish key schedule for 18 words.
EffectiveKey(password) ==
    LET ckey == Append(password, 0)
    IN  [i \in 1..BlowfishKeyBytes |-> ckey[((i - 1) % Len(ckey)) + 1]]

\* The digest of a bcrypt hash: a one-way function of cost, salt and key
\* material, modelled as injective in all three.
BcryptDigest(password, cost, salt) ==
    [cost |-> cost, salt |-> salt, key |-> EffectiveKey(password)]

NoDigest == [cost |-> 0, salt |-> 0, key |-> <<>>]

\* A hash string, by its format: "empty" is the string "", "bcrypt" is
\* "$2a$<cost>$<salt><digest>", the others are 60-byte strings that
\* newFromHash rejects.
HashString(fmt, cost, salt, digest) ==
    [fmt |-> fmt, cost |-> cost, salt |-> salt, digest |-> digest]

EmptyString == HashString("empty", 0, 0, NoDigest)

\* Hash strings that are not bcrypt hashes: the empty string (too short), one
\* not starting with '$', a version above '2', a cost outside 4..31.
ForeignHashes ==
    { HashString(f, 0, 0, NoDigest) :
        f \in {"empty", "badprefix", "toonew", "badcost"} }

\* The salts the random source can still hand out: 16 fresh random bytes.
GenerateSaltReused(used) == {1}
GenerateSalt(used) == (1..MaxSalts) \ used

\* bcrypt.GenerateFromPassword(password, cost) with the salt it drew.
GenerateFromPassword(password, cost, salt) ==
    IF Len(password) > BcryptMaxLen
    THEN [hash |-> EmptyString, err |-> "ErrPasswordTooLong"]
    ELSE [hash |-> HashString("bcrypt", cost, salt,
                              BcryptDigest(password, cost, salt)),
          err |-> Nil]

\* bcrypt.CompareHashAndPassword(hashedPassword, password)
CompareHashAndPassword(hash, password) ==
    CASE hash.fmt = "empty" -> "ErrHashTooShort"
      [] hash.fmt = "badprefix" -> "InvalidHashPrefixError"
      [] hash.fmt = "toonew" -> "HashVersionTooNewError"
      [] hash.fmt = "badcost" -> "InvalidCostError"
      [] OTHER ->
            IF BcryptDigest(password, hash.cost, hash.salt) = hash.digest
            THEN Nil
            ELSE "ErrMismatchedHashAndPassword"

----------------------------------------------------------------------------
(* package auth: the credential hasher. *)

\* HashPassword as first written: no guard on the empty password.
HashPasswordUnguarded(password, salt) ==
    LET r == GenerateFromPassword(password, DefaultCost, salt)
    IN  IF r.err # Nil
        THEN [hash |-> EmptyString, err |-> Errorf("error hashing pass", r.err)]
        ELSE [hash |-> r.hash, err |-> NoError]

\* HashPassword(password), with the salt bcrypt drew.
HashPassword(password, salt) ==
    IF Len(password) = 0
    THEN [hash |-> EmptyString,
          err |-> Errorf("error hashing password of zero length ", Nil)]
    ELSE LET r == GenerateFromPassword(password, DefaultCost, salt)
         IN  IF r.err # Nil
             THEN [hash |-> EmptyString,
                   err |-> Errorf("error hashing pass", r.err)]
             ELSE [hash |-> r.hash, err |-> NoError]

\* The shortest bcrypt hash string.
MinHashSize == 59

\* CheckPasswordHash with the arguments of CompareHashAndPassword swapped: the
\* password is read as the hash, and is too short or has no '$' prefix.
CheckPasswordHashSwapped(password, hash) ==
    Errorf("password does not match",
           IF Len(password) < MinHashSize THEN "ErrHashTooShort"
           ELSE "InvalidHashPrefixError")

\* CheckPasswordHash(password, hash)
CheckPasswordHash(password, hash) ==
    LET err == CompareHashAndPassword(hash, password)
    IN  IF err # Nil
        THEN Errorf("password does not match", err)
        ELSE NoError

----------------------------------------------------------------------------
(* The inputs the hasher is exercised with. *)

\* "", "a", "a\x00a", 72 and 73 times "a".
Passwords ==
    { <<>>, <<97>>, <<97, 0, 97>>, Rep(97, 72), Rep(97, 73) }

NoCheck == [called |-> FALSE, password |-> <<>>, hash |-> EmptyString,
            err |-> NoError]

\* The hash strings CheckPasswordHash is called with.
KnownHashes ==
    { hashLog[i].hash : i \in 1..Len(hashLog) } \cup ForeignHashes

InitHash ==
    /\ usedSalts = {}
    /\ hashLog = <<>>
    /\ lastCheck = NoCheck

\* A call of HashPassword.
HashPasswordCall ==
    \E password \in Passwords :
        /\ Len(hashLog) < MaxHashCalls
        /\ \E salt \in GenerateSalt(usedSalts) :
            LET r == HashPassword(password, salt)
            IN  /\ usedSalts' = IF r.err = NoError
                                THEN usedSalts \cup {salt}
                                ELSE usedSalts
                /\ hashLog' = Append(hashLog, [password |-> password] @@ r)
        /\ UNCHANGED lastCheck

\* A call of CheckPasswordHash.
CheckPasswordHashCall ==
    \E password \in Passwords, hash \in KnownHashes :
        /\ lastCheck' = [called |-> TRUE, password |-> password, hash |-> hash,
                         err |-> CheckPasswordHash(password, hash)]
        /\ UNCHANGED <<usedSalts, hashLog>>

NextHash ==
    \/ HashPasswordCall /\ UNCHANGED <<jwtVars, httpVars, bearerVars, presentVars, concVars, hitVars>>
    \/ CheckPasswordHashCall /\ UNCHANGED <<jwtVars, httpVars, bearerVars, presentVars, concVars, hitVars>>

----------------------------------------------------------------------------
(* github.com/google/uuid, as MakeJWT and ValidateJWT use it.  A UUID is a  *)
(* sequence of 16 bytes; its string form is a sequence of ASCII codes.      *)

UUIDBytes == 16

Hyphen == 45

\* uuid.UUID{}: the zero identifier.
ZeroUUID == Rep(0, UUIDBytes)

\* The lower-case hexadecimal digit of n, 0 <= n < 16, as an ASCII code.
HexDigit(n) == IF n < 10 THEN 48 + n ELSE 87 + n

\* hex.Encode: two digits per byte.
RECURSIVE HexEncode(_)
HexEncode(bytes) ==
    IF bytes = <<>> THEN <<>>
    ELSE <<HexDigit(Head(bytes) \div 16), HexDigit(Head(bytes) % 16)>>
            \o HexEncode(Tail(bytes))

\* UUID.String(): xxxxxxxx-xxxx-xxxx-xxxx-xxxxxxxxxxxx
UUIDString(u) ==
    HexEncode(SubSeq(u, 1, 4)) \o <<Hyphen>> \o
    HexEncode(SubSeq(u, 5, 6)) \o <<Hyphen>> \o
    HexEncode(SubSeq(u, 7, 8)) \o <<Hyphen>> \o
    HexEncode(SubSeq(u, 9, 10)) \o <<Hyphen>> \o
    HexEncode(SubSeq(u, 11, 16))

\* The value of a hexadecimal digit given as an ASCII code, 255 for any other
\* byte (the xvalues table).
XValue(c) ==
    CASE c \in 48..57 -> c - 48
      [] c \in 97..102 -> c - 87
      [] c \in 65..70 -> c - 55
      [] OTHER -> 255

\* strings.ToLower on one ASCII byte.
ToLowerByte(c) == IF c \in 65..90 THEN c + 32 ELSE c

\* "urn:uuid:"
UrnPrefix == <<117, 114, 110, 58, 117, 117, 105, 100, 58>>

\* Where the 16 bytes start in the 36-character form (counted from 1).
HexOffsets == <<1, 3, 5, 7, 10, 12, 15, 17, 20, 22, 25, 27, 29, 31, 33, 35>>

\* uuid.Parse on the 36-character form.
UUIDParse36(s) ==
    IF s[9] # Hyphen \/ s[14] # Hyphen \/ s[19] # Hyphen \/ s[24] # Hyphen
    THEN [id |-> ZeroUUID, ok |-> FALSE]
    ELSE IF \E i \in 1..UUIDBytes :
                XValue(s[HexOffsets[i]]) = 255 \/ XValue(s[HexOffsets[i] + 1]) = 255
         THEN [id |-> ZeroUUID, ok |-> FALSE]
         ELSE [id |-> [i \in 1..UUIDBytes |->
                          XValue(s[HexOffsets[i]]) * 16 + XValue(s[HexOffsets[i] + 1])],
               ok |-> TRUE]

\* uuid.Parse(s): the 36-character form, the same after "urn:uuid:" or inside
\* braces, or 32 hexadecimal digits.
UUIDParse(s) ==
    CASE Len(s) = 36 -> UUIDParse36(s)
      [] Len(s) = 45 ->
            IF [i \in 1..9 |-> ToLowerByte(s[i])] = UrnPrefix
            THEN UUIDParse36(SubSeq(s, 10, 45))
            ELSE [id |-> ZeroUUID, ok |-> FALSE]
      [] Len(s) = 38 -> UUIDParse36(SubSeq(s, 2, 38))
      [] Len(s) = 32 ->
            IF \E i \in 1..32 : XValue(s[i]) = 255
            THEN [id |-> ZeroUUID, ok |-> FALSE]
            ELSE [id |-> [i \in 1..UUIDBytes |->
                             XValue(s[2 * i - 1]) * 16 + XValue(s[2 * i])],
                  ok |-> TRUE]
      [] OTHER -> [id |-> ZeroUUID, ok |-> FALSE]

----------------------------------------------------------------------------
(* github.com/golang-jwt/jwt/v5, as MakeJWT and ValidateJWT use it. *)

\* Block size of SHA-256 in bytes: HMAC pads a shorter key with NUL bytes to
\* this length and replaces a longer one by its digest.
HMACBlockSize == 64

\* The key HMAC-SHA256 works with.  The digest of a long key is modelled as
\* injective: it is named by the key it was computed from.
HMACKey(key) ==
    IF Len(key) > HMACBlockSize
    THEN [hashed |-> TRUE, bytes |-> key]
    ELSE [hashed |-> FALSE, bytes |-> key \o Rep(0, HMACBlockSize - Len(key))]

\* SigningMethodHS256.Sign(signingString, key): the MAC is modelled as
\* injective in the key HMAC works with and in the signed text.
HMACSign(signingString, key) ==
    [key |-> HMACKey(key), msg |-> signingString]

NoSignature == [key |-> [hashed |-> FALSE, bytes |-> <<>>],
                msg |-> [alg |-> "", claims |-> [iss |-> "", sub |-> <<>>,
                                                 iat |-> 0, exp |-> 0]]]

\* NumericDate.MarshalJSON: a time in ticks as whole seconds since the epoch
\* (truncated to TimePrecision, one second).
NumericDate(t) == t \div TicksPerSecond

\* The text a token's signature covers: the encoded header and claims.
SigningString(alg, claims) == [alg |-> alg, claims |-> claims]

\* A compact token string header.claims.signature, by its parts.
TokenString(alg, claims, sig) == [alg |-> alg, claims |-> claims, sig |-> sig]

\* The string "".
EmptyToken ==
    TokenString("", [iss |-> "", sub |-> <<>>, iat |-> 0, exp |-> 0], NoSignature)

----------------------------------------------------------------------------
(* package auth: the token service. *)

\* newClaims as MakeJWT fills it in, with its times in ticks: t1 is the
\* reading of time.Now() for IssuedAt, t2 the one for ExpiresAt.
NewClaims(userID, expiresIn, t1, t2) ==
    [iss |-> "chirpy",
     sub |-> UUIDString(userID),
     iat |-> t1,
     exp |-> t2 + expiresIn]

\* MakeJWT as first written: the secret is handed to SignedString as a
\* string, which SigningMethodHS256 rejects (ErrInvalidKeyType).
MakeJWTStringKey(userID, tokenSecret, expiresIn, t1, t2) ==
    [token |-> EmptyToken,
     err |-> Errorf("error signing token", "ErrInvalidKeyType")]

\* MakeJWT(userID, tokenSecret, expiresIn); t1 and t2 are the two readings of
\* time.Now(), for issued-at and for expires-at.
MakeJWT(userID, tokenSecret, expiresIn, t1, t2) ==
    LET built == NewClaims(userID, expiresIn, t1, t2)
        claims == [built EXCEPT !.iat = NumericDate(built.iat),
                                !.exp = NumericDate(built.exp)]
    IN  [token |-> TokenString("HS256", claims,
                       HMACSign(SigningString("HS256", claims), tokenSecret)),
         err |-> NoError]

\* The result of ValidateJWT on failure.
ValidateError(msg, cause) == [id |-> ZeroUUID, err |-> Errorf(msg, cause)]

\* ValidateJWT trusting the token: the claims are read without verification.
ValidateJWTUnverified(tokenString, tokenSecret, at) ==
    LET parsed == UUIDParse(tokenString.claims.sub)
    IN  IF ~parsed.ok
        THEN ValidateError("error parsing userUUID", "invalid UUID")
        ELSE [id |-> parsed.id, err |-> NoError]

\* ValidateJWT with the validation of the claims switched off: the signature
\* is verified, the expiry is not.
ValidateJWTNoExpiry(tokenString, tokenSecret, at) ==
    IF tokenString.alg # "HS256"
    THEN ValidateError("error validating", "ErrTokenUnverifiable")
    ELSE IF HMACSign(SigningString(tokenString.alg, tokenString.claims),
                     tokenSecret) # tokenString.sig
    THEN ValidateError("error validating", "ErrTokenSignatureInvalid")
    ELSE LET parsed == UUIDParse(tokenString.claims.sub)
         IN  IF ~parsed.ok
             THEN ValidateError("error parsing userUUID", "invalid UUID")
             ELSE [id |-> parsed.id, err |-> NoError]

\* ValidateJWT with a key function that hands out the secret whatever the
\* token's method: the token is verified by the method its header names
\* (the method none refuses a key of bytes).
ValidateJWTAnyMethod(tokenString, tokenSecret, at) ==
    IF tokenString.alg = "none"
    THEN ValidateError("error validating", "ErrTokenSignatureInvalid")
    ELSE IF HMACSign(SigningString(tokenString.alg, tokenString.claims),
                     tokenSecret) # tokenString.sig
    THEN ValidateError("error validating", "ErrTokenSignatureInvalid")
    ELSE IF ~(at < tokenString.claims.exp * TicksPerSecond)
    THEN ValidateError("error validating", "ErrTokenExpired")
    ELSE LET parsed == UUIDParse(tokenString.claims.sub)
         IN  IF ~parsed.ok
             THEN ValidateError("error parsing userUUID", "invalid UUID")
             ELSE [id |-> parsed.id, err |-> NoError]

\* ValidateJWT(tokenString, tokenSecret), called when the clock reads at.
\* jwt.ParseWithClaims asks the key function for the key (which refuses any
\* method but HS256), verifies the signature, then validates the claims:
\* the token is expired unless at is before its exp.
ValidateJWT(tokenString, tokenSecret, at) ==
    IF tokenString.alg # "HS256"
    THEN ValidateError("error validating", "ErrTokenUnverifiable")
    ELSE IF HMACSign(SigningString(tokenString.alg, tokenString.claims),
                     tokenSecret) # tokenString.sig
    THEN ValidateError("error validating", "ErrTokenSignatureInvalid")
    ELSE IF ~(at < tokenString.claims.exp * TicksPerSecond)
    THEN ValidateError("error validating", "ErrTokenExpired")
    ELSE LET parsed == UUIDParse(tokenString.claims.sub)
         IN  IF ~parsed.ok
             THEN ValidateError("error parsing userUUID", "invalid UUID")
             ELSE [id |-> parsed.id, err |-> NoError]

----------------------------------------------------------------------------
(* The inputs the token service is exercised with. *)

\* The zero identifier, 01234567-89ab-cdef-fedc-ba9876543210, and all ones.
UserIDs ==
    { ZeroUUID,
      <<1, 35, 69, 103, 137, 171, 205, 239, 254, 220, 186, 152, 118, 84, 50, 16>>,
      Rep(255, UUIDBytes) }

\* "k", "k\x00", "j", and 65 times "k".
Secrets == { <<107>>, <<107, 0>>, <<106>>, Rep(107, HMACBlockSize + 1) }

\* Lifetimes in ticks: a second in the past, half a second, a second, two
\* and a half seconds.
TTLs == { -TicksPerSecond, 1, TicksPerSecond, 2 * TicksPerSecond + 1 }

NoToken == [issued |-> FALSE, userID |-> ZeroUUID, secret |-> <<>>,
            ttl |-> 0, t1 |-> 0, t2 |-> 0, tok |-> EmptyToken, err |-> NoError]

NoValidate == [called |-> FALSE, secret |-> <<>>, at |-> 0,
               res |-> [id |-> ZeroUUID, err |-> NoError]]

InitJWT ==
    /\ now = 0
    /\ token = NoToken
    /\ lastValidate = NoValidate
    /\ expiredSeen = {}

\* The clock advances.
Tick ==
    /\ now < MaxTime
    /\ now' = now + 1
    /\ UNCHANGED <<token, lastValidate, expiredSeen>>

\* A call of MakeJWT; the clock may advance between its two readings.  A run
\* follows one token from its issue on: validation keeps no state, so tokens
\* do not interact.
MakeJWTCall ==
    \E userID \in UserIDs, secret \in Secrets, ttl \in TTLs, t2 \in {now, now + 1} :
        /\ ~token.issued
        /\ t2 <= MaxTime
        /\ LET r == MakeJWT(userID, secret, ttl, now, t2)
           IN  token' = [issued |-> TRUE, userID |-> userID, secret |-> secret,
                         ttl |-> ttl, t1 |-> now, t2 |-> t2,
                         tok |-> r.token, err |-> r.err]
        /\ now' = t2
        /\ lastValidate' = NoValidate
        /\ expiredSeen' = {}

\* A call of ValidateJWT on the token issued last.
ValidateJWTCall ==
    \E secret \in Secrets :
        /\ token.issued
        /\ LET res == ValidateJWT(token.tok, secret, now)
           IN  /\ lastValidate' = [called |-> TRUE, secret |-> secret,
                                   at |-> now, res |-> res]
               /\ expiredSeen' = IF res.err.cause = "ErrTokenExpired"
                                 THEN expiredSeen \cup {secret}
                                 ELSE expiredSeen
        /\ UNCHANGED <<now, token>>

NextJWT ==
    \/ Tick /\ UNCHANGED <<hashVars, httpVars, bearerVars, presentVars, concVars, hitVars>>
    \/ MakeJWTCall /\ UNCHANGED <<hashVars, httpVars, bearerVars, presentVars, concVars, hitVars>>
    \/ ValidateJWTCall /\ UNCHANGED <<hashVars, httpVars, bearerVars, presentVars, concVars, hitVars>>

----------------------------------------------------------------------------
(* The database, as the queries of sql/queries use it. *)

NoUserRow == [id |-> ZeroUUID, email |-> "", hashed_password |-> EmptyString]

NoChirpRow == [id |-> 0, body |-> <<>>, user_id |-> ZeroUUID]

\* CreateUser: INSERT INTO users (email, hashed_password) ... RETURNING *.
\* id is the identifier gen_random_uuid() drew; the insert fails when the
\* database does (dbOK is false) or when the email is taken (email is UNIQUE).
DBCreateUser(rows, email, hashedPassword, id, dbOK) ==
    IF ~dbOK \/ \E r \in rows : r.email = email
    THEN [ok |-> FALSE, row |-> NoUserRow, rows |-> rows]
    ELSE LET row == [id |-> id, email |-> email,
                     hashed_password |-> hashedPassword]
         IN  [ok |-> TRUE, row |-> row, rows |-> rows \cup {row}]

\* GetUserByEmail: SELECT * FROM users WHERE email = $1, one row or an error.
DBGetUserByEmail(rows, email, dbOK) ==
    IF dbOK /\ \E r \in rows : r.email = email
    THEN [ok |-> TRUE, row |-> CHOOSE r \in rows : r.email = email]
    ELSE [ok |-> FALSE, row |-> NoUserRow]

\* CreateChirp: INSERT INTO chirps (body, user_id) ... RETURNING *.
DBCreateChirp(rows, body, userID, dbOK) ==
    IF ~dbOK
    THEN [ok |-> FALSE, row |-> NoChirpRow, rows |-> rows]
    ELSE LET row == [id |-> Cardinality(rows) + 1, body |-> body,
                     user_id |-> userID]
         IN  [ok |-> TRUE, row |-> row, rows |-> rows \cup {row}]

----------------------------------------------------------------------------
(* package main: the handlers.  A chirp body is modelled as the sequence of *)
(* the words that strings.Split(body, " ") yields.                          *)

\* The words chirp bodies are made of, one of them 141 bytes long.
Words == {"hello", "Kerfuffle", "sharbert", "long141"}

\* len(word) in bytes.
WordLen(w) ==
    CASE w = "hello" -> 5
      [] w = "Kerfuffle" -> 9
      [] w = "sharbert" -> 8
      [] w = "long141" -> 141
      [] OTHER -> 4

\* strings.ToLower(word)
ToLower(w) == IF w = "Kerfuffle" THEN "kerfuffle" ELSE w

\* len(body): the words and the spaces between them.
RECURSIVE BodyLen(_)
BodyLen(body) ==
    IF body = <<>> THEN 0
    ELSE WordLen(Head(body)) + (IF Len(body) > 1 THEN 1 ELSE 0)
            + BodyLen(Tail(body))

\* The longest chirp accepted, in bytes.
MaxChirpLen == 140

\* filterProfanity(body)
filterProfanity(body) ==
    [i \in 1..Len(body) |->
        IF ToLower(body[i]) \in {"kerfuffle", "sharbert", "fornax"}
        THEN "****" ELSE body[i]]

\* A step a handler took: the function it called and whether it succeeded.
Step(fn, ok) == [fn |-> fn, ok |-> ok]

\* What jsonWriter wrote, with the steps the handler took before it: the
\* status, and the body, an errResponse, a User or a Chirp.
Response(handler, status, error, user, chirp, steps) ==
    [handler |-> handler, status |-> status, error |-> error,
     user |-> user, chirp |-> chirp, steps |-> steps]

NoUser == [id |-> ZeroUUID, email |-> ""]

NoResponse == Response("", 0, "", NoUser, NoChirpRow, <<>>)

\* respondWithError(w, code, msg)
respondWithError(handler, code, msg, steps) ==
    Response(handler, code, msg, NoUser, NoChirpRow, steps)

\* The names json.Marshal writes for a payload: those of its fields.
JSONFields(payload) == DOMAIN payload

\* The row of the database handed to jsonWriter as it is.
MainUserWholeRow(row) == row

\* The User a handler answers with: the row without its hashed password.
MainUser(row) == [id |-> row.id, email |-> row.email]

\* middlewareMetricsCreateUser, given whether the body decoded, what
\* HashPassword returned and what the insert returned.
CreateUserResponse(decodeOK, hashed, created) ==
    IF ~decodeOK
    THEN respondWithError("CreateUser", 500, "Error decoding params",
                          <<Step("Decode", FALSE)>>)
    ELSE IF hashed.err # NoError
    THEN respondWithError("CreateUser", 500, "error creating password",
                          <<Step("Decode", TRUE), Step("HashPassword", FALSE)>>)
    ELSE IF ~created.ok
    THEN respondWithError("CreateUser", 500, "error creating user",
                          <<Step("Decode", TRUE), Step("HashPassword", TRUE),
                            Step("CreateUser", FALSE)>>)
    ELSE Response("CreateUser", 201, "", MainUser(created.row), NoChirpRow,
                  <<Step("Decode", TRUE), Step("HashPassword", TRUE),
                    Step("CreateUser", TRUE)>>)

\* middlewareMetricsLoginUser without the return after a failed password
\* check: the handler goes on to answer 200.
LoginUserResponseFallThrough(decodeOK, lookup, password) ==
    IF ~decodeOK
    THEN respondWithError("LoginUser", 500, "Error decoding params",
                          <<Step("Decode", FALSE)>>)
    ELSE IF ~lookup.ok
    THEN respondWithError("LoginUser", 401, "Unauthorized",
                          <<Step("Decode", TRUE), Step("GetUserByEmail", FALSE)>>)
    ELSE Response("LoginUser", 200, "", MainUser(lookup.row), NoChirpRow,
                  <<Step("Decode", TRUE), Step("GetUserByEmail", TRUE),
                    Step("CheckPasswordHash",
                         CheckPasswordHash(password,
                                           lookup.row.hashed_password) = NoError)>>)

\* middlewareMetricsLoginUser, given whether the body decoded, what the
\* lookup by email returned and the password of the request.
LoginUserResponse(decodeOK, lookup, password) ==
    IF ~decodeOK
    THEN respondWithError("LoginUser", 500, "Error decoding params",
                          <<Step("Decode", FALSE)>>)
    ELSE IF ~lookup.ok
    THEN respondWithError("LoginUser", 401, "Unauthorized",
                          <<Step("Decode", TRUE), Step("GetUserByEmail", FALSE)>>)
    ELSE IF CheckPasswordHash(password, lookup.row.hashed_password) # NoError
    THEN respondWithError("LoginUser", 401, "Unauthorized",
                          <<Step("Decode", TRUE), Step("GetUserByEmail", TRUE),
                            Step("CheckPasswordHash", FALSE)>>)
    ELSE Response("LoginUser", 200, "", MainUser(lookup.row), NoChirpRow,
                  <<Step("Decode", TRUE), Step("GetUserByEmail", TRUE),
                    Step("CheckPasswordHash", TRUE)>>)

\* middlewareMetricsCreateChirps, given whether the body decoded, the body of
\* the chirp and what the insert returned.  The handler reads no header.
CreateChirpsResponse(decodeOK, body, created) ==
    IF ~decodeOK
    THEN respondWithError("CreateChirps", 500, "Error decoding params",
                          <<Step("Decode", FALSE)>>)
    ELSE IF BodyLen(body) > MaxChirpLen
    THEN respondWithError("CreateChirps", 400, "Chirp is too long",
                          <<Step("Decode", TRUE)>>)
    ELSE IF ~created.ok
    THEN respondWithError("CreateChirps", 500, "error creating chirp",
                          <<Step("Decode", TRUE), Step("CreateChirp", FALSE)>>)
    ELSE Response("CreateChirps", 201, "", NoUser, created.row,
                  <<Step("Decode", TRUE), Step("CreateChirp", TRUE)>>)

----------------------------------------------------------------------------
(* The requests the server is exercised with. *)

Emails == {"ann@example.com", "bob@example.com"}

\* "", "a" and "b".
RequestPasswords == { <<>>, <<97>>, <<98>> }

\* The identifiers gen_random_uuid() draws from.
RandomUUIDs == UserIDs \ {ZeroUUID}

\* The user identifiers a chirp request names.
RequestUserIDs == { Rep(255, UUIDBytes) }

\* Chirp bodies: two short ones, one of 141 bytes.
Bodies == { <<"hello">>, <<"hello", "Kerfuffle", "sharbert">>, <<"long141">> }

\* "Bearer " and a token of 30 bytes.
BearerHeader == <<66, 101, 97, 114, 101, 114, 32>> \o Rep(120, 30)

\* The values of the Authorization header: absent, or a bearer token.
Authorizations == { <<>>, BearerHeader }

\* A request: its Authorization header, whether its body decodes as JSON,
\* and the fields of the decoded body (empty when the route does not use them
\* or the body did not decode).
Request(route, authorization, decodeOK, email, password, body, userID) ==
    [route |-> route, authorization |-> authorization, decodeOK |-> decodeOK,
     email |-> email, password |-> password, body |-> body, user_id |-> userID]

NoRequest == Request("", <<>>, FALSE, "", <<>>, <<>>, ZeroUUID)

InitHTTP ==
    /\ users = {}
    /\ chirps = {}
    /\ req = NoRequest
    /\ resp = NoResponse

\* POST /api/users
CreateUserRequest ==
    \E decodeOK \in BOOLEAN :
    \E dbOK \in IF decodeOK THEN BOOLEAN ELSE {TRUE},
       email \in IF decodeOK THEN Emails ELSE {""},
       password \in IF decodeOK THEN RequestPasswords ELSE {<<>>},
       id \in RandomUUIDs \ { r.id : r \in users }, salt \in GenerateSalt(usedSalts) :
        LET hashed == IF decodeOK THEN HashPassword(password, salt)
                      ELSE [hash |-> EmptyString, err |-> NoError]
            runInsert == decodeOK /\ hashed.err = NoError
            created == IF runInsert
                       THEN DBCreateUser(users, email, hashed.hash, id, dbOK)
                       ELSE [ok |-> FALSE, row |-> NoUserRow, rows |-> users]
        IN  /\ req' = Request("POST /api/users", <<>>, decodeOK, email, password,
                               <<>>, ZeroUUID)
            /\ resp' = CreateUserResponse(decodeOK, hashed, created)
            /\ users' = created.rows
            /\ usedSalts' = IF runInsert THEN usedSalts \cup {salt} ELSE usedSalts
            /\ UNCHANGED chirps

\* POST /api/login
LoginUserRequest ==
    \E decodeOK \in BOOLEAN :
    \E dbOK \in IF decodeOK THEN BOOLEAN ELSE {TRUE},
       email \in IF decodeOK THEN Emails ELSE {""},
       password \in IF decodeOK THEN RequestPasswords ELSE {<<>>} :
        LET lookup == IF decodeOK THEN DBGetUserByEmail(users, email, dbOK)
                      ELSE [ok |-> FALSE, row |-> NoUserRow]
        IN  /\ req' = Request("POST /api/login", <<>>, decodeOK, email, password,
                               <<>>, ZeroUUID)
            /\ resp' = LoginUserResponse(decodeOK, lookup, password)
            /\ UNCHANGED <<users, chirps, usedSalts>>

\* POST /api/chirps
CreateChirpsRequest ==
    \E decodeOK \in BOOLEAN, authorization \in Authorizations :
    \E dbOK \in IF decodeOK THEN BOOLEAN ELSE {TRUE},
       body \in IF decodeOK THEN Bodies ELSE {<<>>},
       userID \in IF decodeOK THEN RequestUserIDs ELSE {ZeroUUID} :
        /\ Cardinality(chirps) < MaxChirps
        /\ req' = Request("POST /api/chirps", authorization, decodeOK, "", <<>>,
                          body, userID)
        /\ LET runInsert == decodeOK /\ BodyLen(body) <= MaxChirpLen
               created == IF runInsert
                          THEN DBCreateChirp(chirps, filterProfanity(body),
                                             userID, dbOK)
                          ELSE [ok |-> FALSE, row |-> NoChirpRow, rows |-> chirps]
           IN  /\ resp' = CreateChirpsResponse(decodeOK, body, created)
               /\ chirps' = created.rows
        /\ UNCHANGED <<users, usedSalts>>

Next ==
    \/ CreateUserRequest /\ UNCHANGED <<hashLog, lastCheck, jwtVars, bearerVars, presentVars, concVars, hitVars>>
    \/ LoginUserRequest /\ UNCHANGED <<hashLog, lastCheck, jwtVars, bearerVars, presentVars, concVars, hitVars>>
    \/ CreateChirpsRequest /\ UNCHANGED <<hashLog, lastCheck, jwtVars, bearerVars, presentVars, concVars, hitVars>>

----------------------------------------------------------------------------
(* package auth: GetBearerToken, with package strings as it uses it. *)

\* The encodings of the runes unicode.IsSpace accepts: \t \n \v \f \r and the
\* space, U+0085, U+00A0, U+1680, U+2000..U+200A, U+2028, U+2029, U+202F,
\* U+205F and U+3000.
SpaceRunes ==
    { <<9>>, <<10>>, <<11>>, <<12>>, <<13>>, <<32>>,
      <<194, 133>>, <<194, 160>>, <<225, 154, 128>>,
      <<226, 129, 159>>, <<227, 128, 128>> }
    \cup { <<226, 128, b>> : b \in (128..138) \cup {168, 169, 175} }

\* strings.HasPrefix(s, prefix)
HasPrefix(s, prefix) ==
    Len(s) >= Len(prefix) /\ SubSeq(s, 1, Len(prefix)) = prefix

\* strings.HasSuffix(s, suffix)
HasSuffix(s, suffix) ==
    Len(s) >= Len(suffix) /\ SubSeq(s, Len(s) - Len(suffix) + 1, Len(s)) = suffix

\* strings.TrimPrefix(s, prefix)
TrimPrefix(s, prefix) ==
    IF HasPrefix(s, prefix) THEN SubSeq(s, Len(prefix) + 1, Len(s)) ELSE s

\* strings.TrimLeftFunc(s, unicode.IsSpace)
RECURSIVE TrimLeftSpace(_)
TrimLeftSpace(s) ==
    IF \E w \in SpaceRunes : HasPrefix(s, w)
    THEN LET w == CHOOSE x \in SpaceRunes : HasPrefix(s, x)
         IN  TrimLeftSpace(SubSeq(s, Len(w) + 1, Len(s)))
    ELSE s

\* strings.TrimRightFunc(s, unicode.IsSpace)
RECURSIVE TrimRightSpace(_)
TrimRightSpace(s) ==
    IF \E w \in SpaceRunes : HasSuffix(s, w)
    THEN LET w == CHOOSE x \in SpaceRunes : HasSuffix(s, x)
         IN  TrimRightSpace(SubSeq(s, 1, Len(s) - Len(w)))
    ELSE s

\* strings.TrimSpace with the trailing white space left in place.
TrimSpaceLeading(s) == TrimLeftSpace(s)

\* strings.TrimSpace(s)
TrimSpace(s) == TrimRightSpace(TrimLeftSpace(s))

\* "Bearer"
BearerWord == <<66, 101, 97, 114, 101, 114>>

\* "Bearer "
BearerPrefix == BearerWord \o <<32>>

\* The shortest token GetBearerToken accepts, in bytes.
MinTokenLen == 30

\* The result of GetBearerToken on failure.
BearerError(msg) == [token |-> <<>>, err |-> Errorf(msg, Nil)]

\* GetBearerToken without the test for an empty header value.
GetBearerTokenNoEmptyTest(header) ==
    LET trimmed == TrimSpace(header)
    IN  IF ~HasPrefix(trimmed, BearerPrefix)
        THEN BearerError("invalid authorization header")
        ELSE LET tok == TrimSpace(TrimPrefix(trimmed, BearerWord))
             IN  IF Len(tok) < MinTokenLen
                 THEN BearerError("invalid token")
                 ELSE [token |-> tok, err |-> NoError]

\* GetBearerToken testing for the word "Bearer" without the space after it.
GetBearerTokenWordOnly(header) ==
    IF header = <<>>
    THEN BearerError("unable to retrieve authorization header")
    ELSE LET trimmed == TrimSpace(header)
         IN  IF ~HasPrefix(trimmed, BearerWord)
             THEN BearerError("invalid authorization header")
             ELSE LET tok == TrimSpace(TrimPrefix(trimmed, BearerWord))
                  IN  IF Len(tok) < MinTokenLen
                      THEN BearerError("invalid token")
                      ELSE [token |-> tok, err |-> NoError]

\* GetBearerToken refusing a token of the minimum length as well.
GetBearerTokenOffByOne(header) ==
    IF header = <<>>
    THEN BearerError("unable to retrieve authorization header")
    ELSE LET trimmed == TrimSpace(header)
         IN  IF ~HasPrefix(trimmed, BearerPrefix)
             THEN BearerError("invalid authorization header")
             ELSE LET tok == TrimSpace(TrimPrefix(trimmed, BearerWord))
                  IN  IF Len(tok) <= MinTokenLen
                      THEN BearerError("invalid token")
                      ELSE [token |-> tok, err |-> NoError]

\* GetBearerToken(headers); header is headers.Get("Authorization"), the empty
\* string when the header is absent.
GetBearerToken(header) ==
    IF header = <<>>
    THEN BearerError("unable to retrieve authorization header")
    ELSE LET trimmed == TrimSpace(header)
         IN  IF ~HasPrefix(trimmed, BearerPrefix)
             THEN BearerError("invalid authorization header")
             ELSE LET tok == TrimSpace(TrimPrefix(trimmed, BearerWord))
                  IN  IF Len(tok) < MinTokenLen
                      THEN BearerError("invalid token")
                      ELSE [token |-> tok, err |-> NoError]

----------------------------------------------------------------------------
(* The headers GetBearerToken is exercised with. *)

\* http.Header.Get("Authorization"): the first value under the key, the empty
\* string when there is none.
HeaderGet(present, value) == IF present THEN value ELSE <<>>

\* White space around the parts of a header value: none, a space, a tab and
\* a line feed, a no-break space (U+00A0).
Paddings == { <<>>, <<32>>, <<9, 10>>, <<194, 160>> }

\* What stands where the scheme should: "Bearer ", "Bearer", "bearer ",
\* "BearerXYZ", "Bearer" and a tab, nothing.
Schemes ==
    { BearerPrefix, BearerWord, <<98, 101, 97, 114, 101, 114, 32>>,
      BearerWord \o <<88, 89, 90>>, BearerWord \o <<9>>, <<>> }

\* Tokens: none, "shorttoken", and tokens of 29, 30 and 31 bytes, one with a
\* space inside, one of 15 two-byte runes.
BearerTokens ==
    { <<>>, <<115, 104, 111, 114, 116, 116, 111, 107, 101, 110>>,
      Rep(120, MinTokenLen - 1), Rep(120, MinTokenLen), Rep(120, MinTokenLen + 1),
      Rep(120, 14) \o <<32>> \o Rep(120, 15),
      [i \in 1..MinTokenLen |-> IF i % 2 = 1 THEN 195 ELSE 169] }

NoBearer == [called |-> FALSE, present |-> FALSE, lead |-> <<>>, scheme |-> <<>>,
             mid |-> <<>>, tok |-> <<>>, trail |-> <<>>, value |-> <<>>,
             res |-> [token |-> <<>>, err |-> NoError]]

InitBearer == bearer = NoBearer

\* A call of GetBearerToken on a request without Authorization header.  A run
\* follows one call: the function keeps no state.
GetBearerTokenAbsent ==
    /\ ~bearer.called
    /\ bearer' = [NoBearer EXCEPT !.called = TRUE,
                                  !.res = GetBearerToken(HeaderGet(FALSE, <<>>))]

\* A call of GetBearerToken on a request with an Authorization header.
GetBearerTokenCall ==
    \E lead \in Paddings, scheme \in Schemes, mid \in Paddings,
       tok \in BearerTokens, trail \in Paddings :
        LET value == lead \o scheme \o mid \o tok \o trail
        IN  ~bearer.called /\ bearer' = [called |-> TRUE, present |-> TRUE, lead |-> lead,
                       scheme |-> scheme, mid |-> mid, tok |-> tok,
                       trail |-> trail, value |-> value,
                       res |-> GetBearerToken(HeaderGet(TRUE, value))]

NextBearer ==
    \/ GetBearerTokenAbsent /\ UNCHANGED <<hashVars, jwtVars, httpVars, presentVars, concVars, hitVars>>
    \/ GetBearerTokenCall /\ UNCHANGED <<hashVars, jwtVars, httpVars, presentVars, concVars, hitVars>>

----------------------------------------------------------------------------
(* Tokens made by other parties than MakeJWT, presented to ValidateJWT. *)

\* The methods a presented token's header names.
Algs == { "HS256", "HS384", "none" }

\* "01234567-89ab-cdef-fedc-ba9876543210"
CanonicalSubject ==
    UUIDString(<<1, 35, 69, 103, 137, 171, 205, 239, 254, 220, 186, 152, 118, 84, 50, 16>>)

\* Subjects: none, "user", the canonical form of an identifier, the same in
\* upper case, after "urn:uuid:", in braces, as 32 digits, with a slash for
\* its first hyphen, with a g for its first digit, and between an x and a y.
Subjects ==
    { <<>>, <<117, 115, 101, 114>>,
      CanonicalSubject,
      [i \in 1..36 |-> IF CanonicalSubject[i] \in 97..102
                       THEN CanonicalSubject[i] - 32 ELSE CanonicalSubject[i]],
      UrnPrefix \o CanonicalSubject,
      <<123>> \o CanonicalSubject \o <<125>>,
      HexEncode(<<1, 35, 69, 103, 137, 171, 205, 239, 254, 220, 186, 152, 118, 84, 50, 16>>),
      [CanonicalSubject EXCEPT ![9] = 47],
      [CanonicalSubject EXCEPT ![1] = 103],
      <<120>> \o CanonicalSubject \o <<121>> }

\* The secrets tokens are signed and validated with here: "k" and "j".
PresentSecrets == { <<107>>, <<106>> }

\* The exp claims of presented tokens, in seconds.
PresentExps == 0 .. (MaxTime \div TicksPerSecond)

\* A token signed by the method alg under key; the method none signs with
\* the empty signature.
SignedToken(alg, claims, key) ==
    TokenString(alg, claims,
        IF alg = "none" THEN NoSignature
        ELSE HMACSign(SigningString(alg, claims), key))

NoPresented == [called |-> FALSE, tok |-> EmptyToken, signer |-> <<>>,
                secret |-> <<>>, at |-> 0,
                res |-> [id |-> ZeroUUID, err |-> NoError]]

InitPresent == presented = NoPresented

\* The clock advances.
PresentTick ==
    /\ now < MaxTime
    /\ now' = now + 1
    /\ UNCHANGED <<token, lastValidate, expiredSeen, presented>>

\* A call of ValidateJWT on a token some party built and signed.  A run
\* follows one such call: validation keeps no state.
ValidatePresentedCall ==
    \E alg \in Algs, sub \in Subjects, exp \in PresentExps,
       signer \in PresentSecrets, secret \in PresentSecrets :
        /\ ~presented.called
        /\ LET claims == [iss |-> "chirpy", sub |-> sub, iat |-> 0, exp |-> exp]
               tok == SignedToken(alg, claims, signer)
           IN  presented' = [called |-> TRUE, tok |-> tok, signer |-> signer,
                             secret |-> secret, at |-> now,
                             res |-> ValidateJWT(tok, secret, now)]
        /\ UNCHANGED jwtVars

NextPresent ==
    \/ PresentTick /\ UNCHANGED <<hashVars, httpVars, bearerVars, concVars, hitVars>>
    \/ ValidatePresentedCall /\ UNCHANGED <<hashVars, httpVars, bearerVars, concVars, hitVars>>

----------------------------------------------------------------------------
(* Concurrent invocations of the functions of package auth.  An invocation  *)
(* starts by taking its arguments into its local variables and finishes by  *)
(* computing its result from them; the steps of different invocations       *)
(* interleave.                                                               *)

\* The local variables of invocation i live in its own stack frame.
FrameShared(i) == 1
Frame(i) == i

\* The secret the server is configured with: "k".
ConfigSecret == <<107>>

\* The user and the lifetime MakeJWT is invoked with.
ConcUserID == Rep(255, UUIDBytes)

ConcTTL == TicksPerSecond

\* A stored hash of "a", and a token issued at tick 0.
StoredHash == HashPassword(<<97>>, 0).hash

IssuedToken == MakeJWT(ConcUserID, ConfigSecret, ConcTTL, 0, 0).token

\* What an invocation is called with: the function and its arguments.
Job(fn, text, hash, tok) == [fn |-> fn, text |-> text, hash |-> hash, tok |-> tok]

Jobs ==
    { Job("HashPassword", <<97>>, EmptyString, EmptyToken),
      Job("CheckPasswordHash", <<98>>, StoredHash, EmptyToken),
      Job("MakeJWT", <<>>, EmptyString, EmptyToken),
      Job("ValidateJWT", <<>>, EmptyString, IssuedToken) }
    \cup { Job("GetBearerToken", text, EmptyString, EmptyToken) :
            text \in {BearerHeader, BearerPrefix \o <<120>>} }

\* What an invocation returns: the values of the function's results.
Out(hash, tok, id, text, err) ==
    [hash |-> hash, tok |-> tok, id |-> id, text |-> text, err |-> err]

NoOut == Out(EmptyString, EmptyToken, ZeroUUID, <<>>, NoError)

\* The local variables of an invocation.
Locals(text, hash, tok, secret, t1) ==
    [text |-> text, hash |-> hash, tok |-> tok, secret |-> secret, t1 |-> t1]

NoLocals == Locals(<<>>, EmptyString, EmptyToken, <<>>, 0)

\* The function fn run on the local variables loc; t2 is the clock reading it
\* takes as it finishes, salt the salt it draws.
Run(fn, loc, t2, salt) ==
    CASE fn = "HashPassword" ->
            LET r == HashPassword(loc.text, salt)
            IN  Out(r.hash, EmptyToken, ZeroUUID, <<>>, r.err)
      [] fn = "CheckPasswordHash" ->
            Out(EmptyString, EmptyToken, ZeroUUID, <<>>,
                CheckPasswordHash(loc.text, loc.hash))
      [] fn = "MakeJWT" ->
            LET r == MakeJWT(ConcUserID, loc.secret, ConcTTL, loc.t1, t2)
            IN  Out(EmptyString, r.token, ZeroUUID, <<>>, r.err)
      [] fn = "ValidateJWT" ->
            LET r == ValidateJWT(loc.tok, loc.secret, t2)
            IN  Out(EmptyString, EmptyToken, r.id, <<>>, r.err)
      [] OTHER ->
            LET r == GetBearerToken(loc.text)
            IN  Out(EmptyString, EmptyToken, ZeroUUID, r.token, r.err)

\* time.Now() where the function fn reads the clock: the reading is t in the
\* function reader, and no reading is taken (0) in the others.
ClockRead(fn, reader, t) == IF fn = reader THEN t ELSE 0

NoCall == [pc |-> "idle", job |-> Job("", <<>>, EmptyString, EmptyToken),
           secret |-> <<>>, t1 |-> 0, t2 |-> 0, salt |-> 0,
           overlapped |-> FALSE, out |-> NoOut]

InitConc ==
    /\ calls = [i \in 1..MaxCalls |-> NoCall]
    /\ frames = [i \in 1..MaxCalls |-> NoLocals]
    /\ signingSecret = ConfigSecret

\* The clock advances while invocations run.
ConcTick ==
    /\ now < MaxConcTime
    /\ now' = now + 1
    /\ UNCHANGED <<token, lastValidate, expiredSeen, usedSalts, concVars, hitVars>>

\* Invocation i starts: its arguments and its first clock reading go into
\* its local variables.
Begin(i) ==
    \E job \in Jobs :
        /\ calls[i].pc = "idle"
        /\ frames' = [frames EXCEPT ![Frame(i)] =
                         Locals(job.text, job.hash, job.tok, signingSecret,
                                ClockRead(job.fn, "MakeJWT", now))]
        /\ calls' = [calls EXCEPT ![i] =
                        [NoCall EXCEPT !.pc = "running", !.job = job,
                            !.secret = signingSecret,
                            !.t1 = ClockRead(job.fn, "MakeJWT", now),
                            !.overlapped =
                                \E j \in 1..MaxCalls : calls[j].pc = "running"]]
        /\ UNCHANGED <<signingSecret, jwtVars, usedSalts>>

\* Invocation i finishes: its result is computed from its local variables.
End(i) ==
    /\ calls[i].pc = "running"
    /\ \E salt \in IF calls[i].job.fn = "HashPassword"
                    THEN GenerateSalt(usedSalts) ELSE {0} :
        LET t2 == IF calls[i].job.fn = "ValidateJWT" THEN now
                  ELSE ClockRead(calls[i].job.fn, "MakeJWT", now)
            out == Run(calls[i].job.fn, frames[Frame(i)], t2, salt)
            drawn == calls[i].job.fn = "HashPassword" /\ out.err = NoError
        IN  /\ calls' = [calls EXCEPT ![i].pc = "done", ![i].t2 = t2,
                                      ![i].salt = IF drawn THEN salt ELSE 0,
                                      ![i].out = out]
            /\ usedSalts' = IF drawn THEN usedSalts \cup {salt} ELSE usedSalts
    /\ UNCHANGED <<frames, signingSecret, jwtVars>>

NextConc ==
    \/ ConcTick /\ UNCHANGED <<hashLog, lastCheck, httpVars, bearerVars, presentVars, hitVars>>
    \/ \E i \in 1..MaxCalls :
        Begin(i) /\ UNCHANGED <<hashLog, lastCheck, httpVars, bearerVars, presentVars, hitVars>>
    \/ \E i \in 1..MaxCalls :
        End(i) /\ UNCHANGED <<hashLog, lastCheck, httpVars, bearerVars, presentVars, hitVars>>

----------------------------------------------------------------------------
(* The file-server hit counter: middlewareMetricsInc, middlewareMetricsStats *)
(* and middlewareMetricsReset, each request in its own goroutine, the       *)
(* operations of the atomic.Int32 as single steps.                          *)

\* math.MaxInt32 and math.MinInt32: the range of an atomic.Int32.
MaxInt32 == 2147483647

MinInt32 == -MaxInt32 - 1

\* Int32.Add(1) on the value v: two's complement, the successor of MaxInt32
\* is MinInt32.
Int32Add(v) == IF v = MaxInt32 THEN MinInt32 ELSE v + 1

Routes == { "/app/", "/admin/metrics", "/admin/reset" }

NoVisit == [route |-> "", pc |-> "idle", after |-> 0, report |-> 0]

InitHits ==
    /\ fileserverHits = 0
    /\ hits = [before |-> 0, since |-> 0]
    /\ visits = [r \in 1..MaxVisits |-> NoVisit]

\* A request arrives on one of the three routes.
Arrive(r) ==
    \E route \in Routes :
        /\ visits[r].pc = "idle"
        /\ visits' = [visits EXCEPT ![r] =
                         [NoVisit EXCEPT !.route = route, !.pc = "arrived"]]
        /\ UNCHANGED <<fileserverHits, hits>>

\* A long run of requests to /app/, one after the other, while no other
\* request is in flight: MaxInt32 - 1 increments of a counter at 0.
ServeManyApp ==
    /\ \A r \in 1..MaxVisits : visits[r].pc \in {"idle", "done"}
    /\ fileserverHits = 0 /\ hits = [before |-> 0, since |-> 0]
    /\ fileserverHits' = MaxInt32 - 1
    /\ hits' = [before |-> MaxInt32 - 1, since |-> 0]
    /\ UNCHANGED visits

\* middlewareMetricsInc: cfg.fileserverHits.Add(1), then the file server.
AppInc(r) ==
    /\ visits[r].route = "/app/" /\ visits[r].pc = "arrived"
    /\ fileserverHits' = Int32Add(fileserverHits)
    /\ hits' = [hits EXCEPT !.since = @ + 1]
    /\ visits' = [q \in 1..MaxVisits |->
                    IF q = r THEN [visits[q] EXCEPT !.pc = "done"]
                    ELSE IF visits[q].pc = "stored"
                    THEN [visits[q] EXCEPT !.after = @ + 1]
                    ELSE visits[q]]

\* middlewareMetricsStats: the page with cfg.fileserverHits.Load().
MetricsLoad(r) ==
    /\ visits[r].route = "/admin/metrics" /\ visits[r].pc = "arrived"
    /\ visits' = [visits EXCEPT ![r].pc = "done", ![r].report = fileserverHits]
    /\ UNCHANGED <<fileserverHits, hits>>

\* middlewareMetricsReset, first half: cfg.fileserverHits.Store(0).
ResetStore(r) ==
    /\ visits[r].route = "/admin/reset" /\ visits[r].pc = "arrived"
    /\ fileserverHits' = 0
    /\ hits' = [before |-> 0, since |-> 0]
    /\ visits' = [visits EXCEPT ![r].pc = "stored"]

\* middlewareMetricsReset, second half: "Hits reset: " with
\* cfg.fileserverHits.Load().
ResetLoad(r) ==
    /\ visits[r].route = "/admin/reset" /\ visits[r].pc = "stored"
    /\ visits' = [visits EXCEPT ![r].pc = "done", ![r].report = fileserverHits]
    /\ UNCHANGED <<fileserverHits, hits>>

NextHits ==
    \/ ServeManyApp
        /\ UNCHANGED <<hashVars, jwtVars, httpVars, bearerVars, presentVars, concVars>>
    \/ \E r \in 1..MaxVisits :
        Arrive(r)
        /\ UNCHANGED <<hashVars, jwtVars, httpVars, bearerVars, presentVars, concVars>>
    \/ \E r \in 1..MaxVisits :
        AppInc(r)
        /\ UNCHANGED <<hashVars, jwtVars, httpVars, bearerVars, presentVars, concVars>>
    \/ \E r \in 1..MaxVisits :
        MetricsLoad(r)
        /\ UNCHANGED <<hashVars, jwtVars, httpVars, bearerVars, presentVars, concVars>>
    \/ \E r \in 1..MaxVisits :
        ResetStore(r)
        /\ UNCHANGED <<hashVars, jwtVars, httpVars, bearerVars, presentVars, concVars>>
    \/ \E r \in 1..MaxVisits :
        ResetLoad(r)
        /\ UNCHANGED <<hashVars, jwtVars, httpVars, bearerVars, presentVars, concVars>>

----------------------------------------------------------------------------
(* The specifications. *)

Init == InitHash /\ InitJWT /\ InitHTTP /\ InitBearer /\ InitPresent /\ InitConc /\ InitHits

\* The server: its handlers taking requests.
Spec == Init /\ [][Next]_vars

\* The credential hasher alone.
SpecHash == Init /\ [][NextHash]_vars

\* The token service alone.
SpecJWT == Init /\ [][NextJWT]_vars

\* The bearer-token extraction alone.
SpecBearer == Init /\ [][NextBearer]_vars

\* ValidateJWT facing tokens made elsewhere.
SpecPresent == Init /\ [][NextPresent]_vars

\* The functions of package auth invoked concurrently.
SpecConc == Init /\ [][NextConc]_vars

\* The hit counter under concurrent requests.
SpecHits == Init /\ [][NextHits]_vars

----------------------------------------------------------------------------
(* Properties of the token service, checked under SpecJWT. *)

\* The instant, in ticks, at which the issued token expires: its exp claim.
ExpiresAt == token.tok.claims.exp * TicksPerSecond

\* C1: for every user identifier, every non-empty secret and every ttl > 0,
\* MakeJWT succeeds, and ValidateJWT on the returned token with the same
\* secret, at any time before the token's expires-at, returns exactly that
\* identifier and no error.
C1_RoundTrip ==
    (token.issued /\ token.ttl > 0 /\ Len(token.secret) > 0) =>
        /\ token.err = NoError
        /\ (lastValidate.called /\ lastValidate.secret = token.secret
                /\ lastValidate.at < ExpiresAt)
            => lastValidate.res = [id |-> token.userID, err |-> NoError]

\* C1 witness: a token with a positive ttl was validated under its own secret
\* and gave back a non-zero user identifier.
C1_Witness ==
    /\ token.issued /\ token.ttl > 0 /\ token.err = NoError
    /\ token.userID # ZeroUUID
    /\ lastValidate.called /\ lastValidate.secret = token.secret
    /\ lastValidate.at > token.t2
    /\ lastValidate.res = [id |-> token.userID, err |-> NoError]

\* The result of a validation that failed on the signature.
IsSignatureFailure(res) ==
    /\ res.err = Errorf("error validating", "ErrTokenSignatureInvalid")
    /\ res.id = ZeroUUID

\* C2 as claimed: a token issued under secret s fails with the invalid
\* signature error, and returns no identifier, under every secret s' # s, at
\* every time from its issue on.
C2_AnyOtherSecretFails ==
    (lastValidate.called /\ lastValidate.secret # token.secret)
        => IsSignatureFailure(lastValidate.res)

\* C2 amended: a token issued under secret s fails with the invalid signature
\* error, and returns no identifier, under every secret s' whose HMAC key
\* (the secret padded with NUL bytes to the 64-byte block, or the digest of a
\* longer secret) differs from that of s, at every time from its issue on;
\* under a secret with the same HMAC key its signature is accepted.
C2_OtherKeyFails ==
    lastValidate.called =>
        /\ HMACKey(lastValidate.secret) # HMACKey(token.secret)
            => IsSignatureFailure(lastValidate.res)
        /\ HMACKey(lastValidate.secret) = HMACKey(token.secret)
            => ~IsSignatureFailure(lastValidate.res)

\* C2 witness: an unexpired token was refused, after its issue, under a secret
\* other than the one that signed it.
C2_Witness ==
    /\ lastValidate.called
    /\ HMACKey(lastValidate.secret) # HMACKey(token.secret)
    /\ token.t2 < lastValidate.at /\ lastValidate.at < ExpiresAt
    /\ IsSignatureFailure(lastValidate.res)

\* The result of a validation that failed on the expiry.
IsExpiredFailure(res) ==
    /\ res.err = Errorf("error validating", "ErrTokenExpired")
    /\ res.id = ZeroUUID

\* C3: under the secret that signed it, a token validates at every time
\* before its expires-at and fails as expired at every time after it (a
\* token issued with a ttl in the past fails so from the start); these are
\* the only two outcomes, and a token that has failed as expired never
\* validates again.
C3_Lifecycle ==
    (lastValidate.called /\ lastValidate.secret = token.secret) =>
        /\ lastValidate.at < ExpiresAt => lastValidate.res.err = NoError
        /\ lastValidate.at > ExpiresAt => IsExpiredFailure(lastValidate.res)
        /\ token.ttl < 0 => IsExpiredFailure(lastValidate.res)
        /\ lastValidate.res.err = NoError \/ IsExpiredFailure(lastValidate.res)
        /\ lastValidate.res.err = NoError => lastValidate.secret \notin expiredSeen
        /\ IsExpiredFailure(lastValidate.res) => lastValidate.secret \in expiredSeen

\* C3 witness: a token that was valid when issued is refused as expired once
\* the clock has passed its expires-at.
C3_Witness ==
    /\ token.issued /\ token.ttl > 0 /\ token.t2 < ExpiresAt
    /\ lastValidate.called /\ lastValidate.secret = token.secret
    /\ lastValidate.at > ExpiresAt
    /\ IsExpiredFailure(lastValidate.res)

----------------------------------------------------------------------------
(* Properties of the credential hasher, checked under SpecHash. *)

\* The HashPassword calls made so far.
HashCalls == { hashLog[i] : i \in 1..Len(hashLog) }

\* h is a hash that HashPassword made from exactly the password p.
HashedFrom(p, h) ==
    \E c \in HashCalls : c.password = p /\ c.err = NoError /\ c.hash = h

\* C7 as claimed: for every non-empty password p, HashPassword(p) succeeds
\* and CheckPasswordHash(p, HashPassword(p)) returns no error.
C7_EveryNonEmptyPasswordHashes ==
    \A c \in HashCalls :
        Len(c.password) > 0 =>
            c.err = NoError /\ CheckPasswordHash(c.password, c.hash) = NoError

\* C7 amended: for every non-empty password p of at most 72 bytes,
\* HashPassword(p) succeeds and CheckPasswordHash(p, HashPassword(p)) returns
\* no error.
C7_HashThenVerify ==
    /\ \A c \in HashCalls :
        Len(c.password) \in 1..BcryptMaxLen =>
            c.err = NoError /\ CheckPasswordHash(c.password, c.hash) = NoError
    /\ (lastCheck.called
            /\ \E c \in HashCalls :
                  /\ c.password = lastCheck.password /\ c.hash = lastCheck.hash
                  /\ Len(c.password) \in 1..BcryptMaxLen)
        => lastCheck.err = NoError

\* C7 witness: a password of 72 bytes was hashed and then verified against
\* its hash.
C7_Witness ==
    /\ lastCheck.called /\ lastCheck.err = NoError
    /\ Len(lastCheck.password) = BcryptMaxLen
    /\ \E c \in HashCalls :
          c.password = lastCheck.password /\ c.hash = lastCheck.hash

\* C8: CheckPasswordHash(p, h) returns no error only when h was produced by
\* hashing p; in every other case, whether h is the hash of another
\* password or is malformed or in a foreign format, it fails with the
\* mismatch error.
C8_OnlyOwnPasswordVerifies ==
    lastCheck.called =>
        IF HashedFrom(lastCheck.password, lastCheck.hash)
        THEN lastCheck.err = NoError
        ELSE lastCheck.err # NoError /\ lastCheck.err.msg = "password does not match"

\* The error of HashPassword's guard on the empty password.
EmptyInputError == Errorf("error hashing password of zero length ", Nil)

\* C9 as claimed: HashPassword("") returns the empty string and the error of
\* its guard, and for every non-empty password the hash is non-empty and
\* the error is nil.
C9_EmptyFailsOthersSucceed ==
    \A c \in HashCalls :
        /\ Len(c.password) = 0 => c.hash = EmptyString /\ c.err = EmptyInputError
        /\ Len(c.password) > 0 => c.hash # EmptyString /\ c.err = NoError

\* C9 amended: HashPassword("") returns the empty string and the error of
\* its guard; for every non-empty password of at most 72 bytes the hash is
\* non-empty and the error is nil; for a longer password the hash is empty
\* and the error wraps bcrypt's ErrPasswordTooLong.
C9_EmptyGuard ==
    \A c \in HashCalls :
        /\ Len(c.password) = 0 => c.hash = EmptyString /\ c.err = EmptyInputError
        /\ Len(c.password) \in 1..BcryptMaxLen
            => c.hash # EmptyString /\ c.err = NoError
        /\ Len(c.password) > BcryptMaxLen
            => /\ c.hash = EmptyString
               /\ c.err = Errorf("error hashing pass", "ErrPasswordTooLong")

\* C9 witness: the empty password was refused and a non-empty one was hashed.
C9_Witness ==
    /\ \E c \in HashCalls :
          Len(c.password) = 0 /\ c.hash = EmptyString /\ c.err = EmptyInputError
    /\ \E c \in HashCalls :
          Len(c.password) > 0 /\ c.hash # EmptyString /\ c.err = NoError

\* C10 as claimed: for every password p, two calls of HashPassword(p) return
\* different hash strings, and each verifies against p.
C10_EveryPasswordFreshHash ==
    \A i, j \in 1..Len(hashLog) :
        (i < j /\ hashLog[i].password = hashLog[j].password) =>
            /\ hashLog[i].hash # hashLog[j].hash
            /\ CheckPasswordHash(hashLog[i].password, hashLog[i].hash) = NoError
            /\ CheckPasswordHash(hashLog[j].password, hashLog[j].hash) = NoError

\* C10 amended: for every non-empty password p of at most 72 bytes, two calls
\* of HashPassword(p) return different hash strings, and each verifies
\* against p.
C10_FreshSalt ==
    \A i, j \in 1..Len(hashLog) :
        (i < j /\ hashLog[i].password = hashLog[j].password
               /\ Len(hashLog[i].password) \in 1..BcryptMaxLen) =>
            /\ hashLog[i].hash # hashLog[j].hash
            /\ CheckPasswordHash(hashLog[i].password, hashLog[i].hash) = NoError
            /\ CheckPasswordHash(hashLog[j].password, hashLog[j].hash) = NoError

\* C10 witness: the same password was hashed twice, into two different
\* hashes, and the second was verified.
C10_Witness ==
    /\ Len(hashLog) >= 2
    /\ hashLog[1].password = hashLog[2].password
    /\ hashLog[1].err = NoError /\ hashLog[2].err = NoError
    /\ hashLog[1].hash # hashLog[2].hash
    /\ lastCheck.called /\ lastCheck.password = hashLog[2].password
    /\ lastCheck.hash = hashLog[2].hash /\ lastCheck.err = NoError

----------------------------------------------------------------------------
(* Properties of the handlers, checked under Spec. *)

\* The steps of the last response, in order.
StepAt(i) == resp.steps[i]

\* C4: a chirp is created only by a request whose handler first extracted the
\* bearer token from the Authorization header and then validated it, both
\* with success, before the insert.
C4_ChirpAfterTokenValidation ==
    (resp.handler = "CreateChirps" /\ resp.status = 201) =>
        \E i, j, k \in 1..Len(resp.steps) :
            /\ i < j /\ j < k
            /\ StepAt(i) = Step("GetBearerToken", TRUE)
            /\ StepAt(j) = Step("ValidateJWT", TRUE)
            /\ StepAt(k) = Step("CreateChirp", TRUE)

\* The row of table users the last login request names, if any.
LoginRows == { r \in users : r.email = req.email }

\* C5: in the login handler a failed lookup by email or a failed password
\* check ends the request with 401 "Unauthorized" and no user record; 200
\* with the user record is answered only when CheckPasswordHash returned no
\* error for the request's password and the stored hash of that user.
C5_LoginFailureIsTerminal ==
    (resp.handler = "LoginUser" /\ req.decodeOK) =>
        /\ (\A r \in LoginRows :
                CheckPasswordHash(req.password, r.hashed_password) # NoError)
            => /\ resp.status = 401 /\ resp.error = "Unauthorized"
               /\ resp.user = NoUser
        /\ (\E i \in 1..Len(resp.steps) : ~StepAt(i).ok)
            => resp.status = 401 /\ resp.user = NoUser
        /\ resp.status = 200
            => /\ \E r \in LoginRows :
                    /\ CheckPasswordHash(req.password, r.hashed_password) = NoError
                    /\ resp.user = MainUser(r)
               /\ StepAt(Len(resp.steps)) = Step("CheckPasswordHash", TRUE)
        /\ resp.status \in {200, 401}

\* C5 witness: a login with a wrong password for an existing user was
\* answered 401.
C5_Witness ==
    /\ resp.handler = "LoginUser" /\ req.decodeOK
    /\ LoginRows # {}
    /\ StepAt(Len(resp.steps)) = Step("CheckPasswordHash", FALSE)
    /\ resp.status = 401 /\ resp.error = "Unauthorized"

\* C6: a login answered with success has called MakeJWT, with success,
\* after the password check and before the response; a failed login has not
\* called it.
C6_LoginMintsToken ==
    resp.handler = "LoginUser" =>
        IF resp.status = 200
        THEN \E i, j \in 1..Len(resp.steps) :
                /\ i < j
                /\ StepAt(i) = Step("CheckPasswordHash", TRUE)
                /\ StepAt(j) = Step("MakeJWT", TRUE)
        ELSE \A i \in 1..Len(resp.steps) : StepAt(i).fn # "MakeJWT"

----------------------------------------------------------------------------
(* Properties of the bearer-token extraction, checked under SpecBearer. *)

MissingHeaderError == BearerError("unable to retrieve authorization header")

MalformedHeaderError == BearerError("invalid authorization header")

TokenTooShortError == BearerError("invalid token")

\* C11: GetBearerToken fails with the missing-header error and returns an
\* empty token whenever the Authorization header is absent or its value is
\* the empty string.
C11_MissingHeader ==
    (bearer.called /\ (~bearer.present \/ bearer.value = <<>>))
        => bearer.res = MissingHeaderError

\* C11 witness: a request whose Authorization header is present and empty was
\* refused with the missing-header error.
C11_Witness ==
    /\ bearer.called /\ bearer.present /\ bearer.value = <<>>
    /\ bearer.res = MissingHeaderError

\* C12: for every non-empty header value GetBearerToken fails with the
\* malformed-header error and an empty token exactly when the trimmed value
\* does not start with "Bearer " (case-sensitive, one space): "BearerXYZ..."
\* with a token of any length, "bearer <token>", a value of white space only
\* and the bare word "Bearer" fail this way, whatever the token's length.
C12_MalformedPrefix ==
    (bearer.called /\ bearer.present /\ bearer.value # <<>>) =>
        /\ (bearer.res = MalformedHeaderError)
            <=> ~HasPrefix(TrimSpace(bearer.value), BearerPrefix)
        /\ bearer.scheme = BearerWord \o <<88, 89, 90>>
            => bearer.res = MalformedHeaderError
        /\ bearer.scheme = <<98, 101, 97, 114, 101, 114, 32>>
            => bearer.res = MalformedHeaderError
        /\ (bearer.scheme = <<>> /\ bearer.tok = <<>>)
            => bearer.res = MalformedHeaderError
        /\ (bearer.scheme \in {BearerWord, BearerPrefix} /\ bearer.tok = <<>>)
            => bearer.res = MalformedHeaderError

\* C12 witness: "BearerXYZ" followed by a token long enough to pass the length
\* test was refused as malformed.
C12_Witness ==
    /\ bearer.called /\ bearer.present
    /\ bearer.scheme = BearerWord \o <<88, 89, 90>>
    /\ Len(bearer.tok) >= MinTokenLen
    /\ bearer.res = MalformedHeaderError

\* C13: for a header value with a valid "Bearer " prefix GetBearerToken fails
\* with the token-too-short error and an empty token exactly when the token
\* left after stripping the prefix and trimming white space is shorter than 30
\* bytes: a token of 29 bytes is refused, a token of 30 bytes is accepted.
C13_LengthThreshold ==
    (bearer.called /\ bearer.present
        /\ HasPrefix(TrimSpace(bearer.value), BearerPrefix)) =>
        /\ (bearer.res = TokenTooShortError)
            <=> Len(TrimSpace(TrimPrefix(TrimSpace(bearer.value), BearerPrefix)))
                    < MinTokenLen
        /\ (bearer.scheme = BearerPrefix /\ Len(bearer.tok) = MinTokenLen - 1)
            => bearer.res = TokenTooShortError
        /\ (bearer.scheme = BearerPrefix /\ Len(bearer.tok) = MinTokenLen)
            => bearer.res = [token |-> bearer.tok, err |-> NoError]

\* C13 witness: a token of 29 bytes after "Bearer " was refused as too short.
C13_Witness ==
    /\ bearer.called /\ bearer.present
    /\ bearer.scheme = BearerPrefix /\ Len(bearer.tok) = MinTokenLen - 1
    /\ bearer.res = TokenTooShortError

----------------------------------------------------------------------------
(* Properties of ValidateJWT on presented tokens, checked under SpecPresent. *)

\* The result of a validation refused by the key function: the token's method
\* is not HS256.
IsMethodFailure(res) ==
    /\ res.err = Errorf("error validating", "ErrTokenUnverifiable")
    /\ res.id = ZeroUUID

\* C15: ValidateJWT fails in the signature check (the key function refuses
\* the method), and returns no user identifier, for every token whose header
\* names a signing algorithm other than HS256, even when the token is
\* unexpired, carries a valid subject and is signed under the secret.
C15_AlgorithmPinned ==
    (presented.called /\ presented.tok.alg # "HS256")
        => IsMethodFailure(presented.res)

\* C15 witness: an unexpired HS384 token with a valid subject, signed under
\* the very secret it was validated with, was refused.
C15_Witness ==
    /\ presented.called /\ presented.tok.alg = "HS384"
    /\ presented.signer = presented.secret
    /\ presented.tok.claims.sub = CanonicalSubject
    /\ presented.at < presented.tok.claims.exp * TicksPerSecond
    /\ IsMethodFailure(presented.res)

\* The 36-character form of an identifier: hexadecimal digits of either
\* case in groups of 8, 4, 4, 4 and 12, with hyphens between them.
IsCanonicalText(s) ==
    /\ Len(s) = 36
    /\ \A i \in 1..36 :
        IF i \in {9, 14, 19, 24} THEN s[i] = Hyphen ELSE XValue(s[i]) # 255

\* The string forms of a 128-bit identifier: the 36-character form, the same
\* after "urn:uuid:" or between braces, or 32 hexadecimal digits.
IsIdentifierText(s) ==
    \/ IsCanonicalText(s)
    \/ /\ Len(s) = 45
       /\ [i \in 1..9 |-> ToLowerByte(s[i])] = UrnPrefix
       /\ IsCanonicalText(SubSeq(s, 10, 45))
    \/ /\ Len(s) = 38
       /\ s[1] = 123 /\ s[38] = 125
       /\ IsCanonicalText(SubSeq(s, 2, 37))
    \/ /\ Len(s) = 32
       /\ \A i \in 1..32 : XValue(s[i]) # 255

\* The result of a validation that failed on the subject.
IsSubjectFailure(res) ==
    /\ res.err = Errorf("error parsing userUUID", "invalid UUID")
    /\ res.id = ZeroUUID

\* C17: a correctly signed, unexpired HS256 token whose subject is not the
\* string form of a 128-bit identifier (an empty or missing subject included)
\* makes ValidateJWT fail on the subject and return the zero identifier;
\* ValidateJWT returns without error only when the subject parses as an
\* identifier.
C17_MalformedSubject ==
    (presented.called /\ presented.tok.alg = "HS256"
        /\ presented.signer = presented.secret
        /\ presented.at < presented.tok.claims.exp * TicksPerSecond) =>
        /\ ~IsIdentifierText(presented.tok.claims.sub)
            => IsSubjectFailure(presented.res)
        /\ presented.res.err = NoError
            => /\ UUIDParse(presented.tok.claims.sub).ok
               /\ presented.res.id = UUIDParse(presented.tok.claims.sub).id

----------------------------------------------------------------------------
(* The claims of an issued token, checked under SpecJWT. *)

\* C16: the claims built by MakeJWT have the issuer "chirpy", the canonical
\* string form of userID as subject, the current time as issued-at, and an
\* expires-at equal to issued-at + ttl exactly, in the claims as built and
\* in the token, for every ttl.
C16_ClaimsBuilt ==
    token.issued =>
        LET built == NewClaims(token.userID, token.ttl, token.t1, token.t2)
            sent == token.tok.claims
        IN  /\ built.iss = "chirpy" /\ sent.iss = "chirpy"
            /\ built.sub = UUIDString(token.userID) /\ sent.sub = built.sub
            /\ built.iat = token.t1 /\ sent.iat = NumericDate(token.t1)
            /\ built.exp = built.iat + token.ttl
            /\ sent.exp * TicksPerSecond = sent.iat * TicksPerSecond + token.ttl

----------------------------------------------------------------------------
(* Properties of concurrent invocations, checked under SpecConc. *)

\* What invocation c returns when it runs alone on its own arguments, with
\* the clock readings and the salt it took.
Alone(c) ==
    Run(c.job.fn, Locals(c.job.text, c.job.hash, c.job.tok, c.secret, c.t1),
        c.t2, c.salt)

\* C18: under any interleaving of concurrent invocations of HashPassword,
\* CheckPasswordHash, MakeJWT, ValidateJWT and GetBearerToken, each
\* invocation returns what it returns when run alone on the same inputs
\* (same clock readings, same salt), and the signing secret never changes.
C18_NoSharedState ==
    /\ \A i \in 1..MaxCalls :
        calls[i].pc = "done" => calls[i].out = Alone(calls[i])
    /\ signingSecret = ConfigSecret

\* C18 witness: two invocations of one function with different arguments ran
\* at the same time and returned different results.
C18_Witness ==
    \E i, j \in 1..MaxCalls :
        /\ i # j
        /\ calls[i].pc = "done" /\ calls[j].pc = "done"
        /\ calls[j].overlapped
        /\ calls[i].job.fn = calls[j].job.fn
        /\ calls[i].job # calls[j].job
        /\ calls[i].out # calls[j].out

----------------------------------------------------------------------------
(* What the user-creation and login handlers write, checked under Spec. *)

\* The error messages of the two handlers.
GenericMessages ==
    { "Error decoding params", "error creating password", "error creating user",
      "Unauthorized" }

\* C19: no response body of the user-creation or login handlers carries the
\* password or the stored hash: a success body is the user's id and email, an
\* error body one of four fixed messages and no user; a login with an
\* unknown email and a login with a wrong password get the same status and
\* body, 401 "Unauthorized".
C19_NoSecretInBody ==
    resp.handler \in {"CreateUser", "LoginUser"} =>
        /\ JSONFields(resp.user) \cap {"password", "hashed_password"} = {}
        /\ resp.status \in {200, 201}
            => /\ resp.error = ""
               /\ \E r \in users : resp.user = [id |-> r.id, email |-> r.email]
        /\ resp.status \notin {200, 201}
            => /\ resp.error \in GenericMessages
               /\ resp.user = NoUser
        /\ (resp.handler = "LoginUser" /\ req.decodeOK
                /\ \/ LoginRows = {}
                   \/ \E r \in LoginRows :
                        CheckPasswordHash(req.password, r.hashed_password) # NoError)
            => /\ resp.status = 401 /\ resp.error = "Unauthorized"
               /\ resp.user = NoUser

\* C19 witness: a user was created with a bcrypt hash stored in its row, and
\* the 201 body names the user's id and email.
C19_Witness ==
    /\ resp.handler = "CreateUser" /\ resp.status = 201
    /\ \E r \in users :
        /\ r.hashed_password.fmt = "bcrypt"
        /\ resp.user = [id |-> r.id, email |-> r.email]

----------------------------------------------------------------------------
(* The hit counter, checked under SpecHits. *)

\* C20: the hit counter loses no update: under any interleaving of requests
\* to /app/, to the metrics handler and to the reset handler, the counter
\* equals the number of /app/ requests whose increment has executed since
\* the last reset (or since start); a metrics read leaves it as it is; a
\* reset sets it to 0, and the reset response reports 0 plus only increments
\* that ran after its store.
C20_HitsCounted ==
    /\ IF fileserverHits < 0 THEN FALSE
       ELSE fileserverHits - hits.since = hits.before
    /\ \A r \in 1..MaxVisits :
        (visits[r].pc = "done" /\ visits[r].route = "/admin/reset")
            => 0 <= visits[r].report /\ visits[r].report <= visits[r].after

====
